---- MODULE Spec2Model ----
(***************************************************************************)
(* A model of the fanotify listener library: the watch registry            *)
(* (fanotifyMark and the Add/Remove/Flush operations built on it), the     *)
(* record decoder (readEvents) and the listener loop (Start/Stop).         *)
(*                                                                         *)
(* Event masks and mark flags are bit sets; they are modelled as sets of   *)
(* the names of the bits that are set, so that | is \cup and & is \cap.    *)
(***************************************************************************)
EXTENDS Integers, Sequences, FiniteSets, TLC

(***************************************************************************)
(* Bounds of the model.                                                    *)
(***************************************************************************)
\* the number of registry calls made in one behaviour
MaxOps == 4

\* the capacity of the Events channel (at least 4096 in the program)
QueueCap == 2

\* the number of buffers the kernel hands to read(2) in one behaviour
MaxReads == 2

\* the number of Stop calls made on the listener in one behaviour
MaxStops == 2

\* the number of wakeups of unix.Poll in a row that report nothing ready or
\* an interrupt
MaxRetries == 1

\* the number of registry calls one thread makes when several threads call
\* the registry at once
MaxThreadCalls == 2

(***************************************************************************)
(* Inputs.                                                                 *)
(***************************************************************************)
\* the paths a caller passes to the per-path operations
Paths == {"/a", "/b"}

\* l.mountpoint.Name(): the path the whole-mount marks are recorded under
MountPointName == "/"

\* the receiver of a method call: a constructed listener or a nil pointer
Receivers == {"l", "nil"}

\* the directory-modification events a whole-mount mark must not carry
DirModEvents ==
    {"FAN_CREATE", "FAN_ATTRIB", "FAN_MOVED_TO", "FAN_MOVED_FROM",
     "FAN_DELETE", "FAN_DELETE_SELF"}

\* the event masks a caller passes to the per-path operations
Masks == {{"FAN_MODIFY"}, {"FAN_MODIFY", "FAN_CREATE"}}

\* the event masks a caller passes to the whole-mount operations
MountMasks ==
    {{"FAN_MODIFY"}, {"FAN_ACCESS", "FAN_OPEN"}, {"FAN_MODIFY", "FAN_CREATE"}}
        \cup {{e} : e \in DirModEvents}

\* the outcomes of the fanotify_mark system call
KernelResults == {"nil", "errno"}

\* the objects a mark can be put on
MarkTargets == Paths \cup {MountPointName}

VARIABLES
    \* ---- the watch registry
    entireMount,    \* Listener.entireMount, fixed at construction
    watches,        \* Listener.watches: the set of tracked paths
    markCalls,      \* number of fanotify_mark calls with FAN_MARK_ADD or FAN_MARK_REMOVE
    flushCalls,     \* number of fanotify_mark calls with FAN_MARK_FLUSH
    kernelMarks,    \* the marks of the notification group: path -> event types
    call,           \* the latest registry call: operation, receiver, arguments, `found'
    ret,            \* the error the latest registry call returned
    nOps,           \* number of registry calls made
    thr,            \* the registry call each concurrent caller is in: where it is, its locals
    \* ---- the listener loop: Start and readEvents
    loopPc,         \* where the goroutine running Start is
    loopExit,       \* why Start returned
    stopFd,         \* fds[1].Fd of Start: the descriptor number taken from l.stopper.r
    pollHeld,       \* the poll in progress holds the read end of the stopper pipe
    wait,           \* what the latest unix.Poll returned: n, err and the revents of fds
    retries,        \* wakeups in a row that Start answered with `continue'
    buf,            \* readEvents: the bytes written to buf so far (the rest is zero)
    n,              \* readEvents: the count of bytes left
    i,              \* readEvents: the cursor
    meta,           \* readEvents: the offset `metadata' points to
    fileName,       \* readEvents: the local fileName
    ev,             \* readEvents: the Event about to be sent
    pushedOffs,     \* offsets of the records of buf whose Event has been sent
    nextFd,         \* the descriptor number the next open returns
    \* ---- the resources of the listener
    Events,         \* l.Events: the buffered channel
    eventsClosed,   \* l.Events has been closed
    mountOpen,      \* l.mountpoint is open
    stopROpen,      \* l.stopper.r is open
    stopWOpen,      \* l.stopper.w is open
    stopperData,    \* bytes are waiting in the stopper pipe
    \* ---- the caller of Stop
    stopPc,         \* where the Stop call in progress is
    stopCalls,      \* number of Stop calls made on the listener
    \* ---- the kernel
    pending,        \* the bytes the next read(2) of the group returns, <<>> if none
    reads,          \* number of buffers handed out
    fault,          \* "none", or the panic that ended the process
    \* ---- functions without state
    fn,             \* the function applied last, "none" before the first
    args,           \* its arguments
    out             \* what it returned

regVars == <<entireMount, watches, markCalls, flushCalls, kernelMarks, call, ret, nOps, thr>>

decodeVars == <<buf, n, i, meta, fileName, ev, pushedOffs, nextFd>>

pollVars == <<wait, retries>>

loopVars == <<loopPc, loopExit, stopFd, pollHeld, pollVars, decodeVars>>

resVars == <<Events, eventsClosed, mountOpen, stopROpen, stopWOpen, stopperData>>

stopVars == <<stopPc, stopCalls>>

kernelVars == <<pending, reads>>

lsVars == <<loopVars, resVars, stopVars, kernelVars>>

fnVars == <<fn, args, out>>

vars == <<regVars, lsVars, fault, fnVars>>

\* the threads that call the registry at once
Threads == {1, 2}

\* a thread that is in no registry call
IdleThread ==
    [pc |-> "idle", op |-> "none", path |-> "", found |-> FALSE, ret |-> "nil", calls |-> 0]

NoCall == [op |-> "none", recv |-> "l", path |-> "", mask |-> {}, found |-> FALSE]

(***************************************************************************)
(* newListener: the state after construction.  The listener is in          *)
(* whole-mount or in per-path mode, tracks nothing and has made no call.   *)
(***************************************************************************)
InitRegistry ==
    /\ entireMount \in BOOLEAN
    /\ watches = {}
    /\ markCalls = 0
    /\ flushCalls = 0
    /\ kernelMarks = [p \in MarkTargets |-> {}]
    /\ call = NoCall
    /\ ret = "nil"
    /\ nOps = 0
    /\ thr = [t \in Threads |-> IdleThread]

(***************************************************************************)
(* fanotifyMark(path, flags, mask, remove).                                *)
(***************************************************************************)
\* mutant: the mark call is never skipped
markSkipNever(found, remove) == FALSE

\* mutant: a remove is never skipped
markSkipRemoveNever(found, remove) == IF remove THEN FALSE ELSE found

\* the value of `skip' after the found/remove branches
markSkip(found, remove) ==
    IF found THEN ~remove ELSE remove

\* mutant: an add of an untracked path is not recorded
markWatchesNoAdd(w, path, remove) ==
    IF path \in w /\ remove THEN w \ {path} ELSE w

\* l.watches after the found/remove branches
markWatches(w, path, remove) ==
    IF path \in w
        THEN IF remove THEN w \ {path} ELSE w
        ELSE IF ~remove THEN w \cup {path} ELSE w

\* the body of fanotifyMark for a non-nil listener; kerr is the outcome of
\* unix.FanotifyMark if it is called
\* what unix.FanotifyMark does to the marks of the group when it returns
\* kerr: FAN_MARK_ADD merges the mask into the mark of the path,
\* FAN_MARK_REMOVE takes it out, a failed call changes nothing
kernelMark(km, path, remove, mask, kerr) ==
    IF kerr # "nil" THEN km
    ELSE [km EXCEPT ![path] = IF remove THEN @ \ mask ELSE @ \cup mask]

\* FAN_MARK_FLUSH removes every mark
kernelFlush(km, kerr) ==
    IF kerr # "nil" THEN km ELSE [p \in DOMAIN km |-> {}]

fanotifyMarkBody(path, flags, mask, remove, kerr) ==
    LET found == path \in watches
        skip == markSkip(found, remove)
    IN  /\ watches' = markWatches(watches, path, remove)
        /\ IF ~skip
              THEN /\ markCalls' = markCalls + 1
                   /\ kernelMarks' = kernelMark(kernelMarks, path, remove, mask, kerr)
                   /\ ret' = kerr
              ELSE /\ UNCHANGED <<markCalls, kernelMarks>>
                   /\ ret' = "nil"
        /\ UNCHANGED flushCalls

fanotifyMark(recv, path, flags, mask, remove, kerr) ==
    IF recv = "nil"
        THEN /\ ret' = "ErrNilListener"
             /\ UNCHANGED <<watches, markCalls, flushCalls, kernelMarks>>
        ELSE fanotifyMarkBody(path, flags, mask, remove, kerr)

\* bookkeeping common to every registry call
Called(op, recv, path, mask) ==
    /\ fault = "none"
    /\ nOps < MaxOps
    /\ nOps' = nOps + 1
    /\ call' = [op |-> op, recv |-> recv, path |-> path, mask |-> mask,
                found |-> path \in watches]
    /\ UNCHANGED <<entireMount, thr, lsVars, fnVars>>

AddDir(recv, dir, events, kerr) ==
    /\ Called("AddDir", recv, dir, events)
    /\ fanotifyMark(recv, dir, {"FAN_MARK_ADD", "FAN_MARK_ONLYDIR"}, events, FALSE, kerr)
    /\ UNCHANGED fault

RemoveDir(recv, dir, events, kerr) ==
    /\ Called("RemoveDir", recv, dir, events)
    /\ fanotifyMark(recv, dir, {"FAN_MARK_REMOVE", "FAN_MARK_ONLYDIR"}, events, TRUE, kerr)
    /\ UNCHANGED fault

AddLink(recv, linkName, events, kerr) ==
    /\ Called("AddLink", recv, linkName, events)
    /\ fanotifyMark(recv, linkName, {"FAN_MARK_ADD", "FAN_MARK_DONT_FOLLOW"}, events, FALSE, kerr)
    /\ UNCHANGED fault

RemoveLink(recv, linkName, events, kerr) ==
    /\ Called("RemoveLink", recv, linkName, events)
    /\ fanotifyMark(recv, linkName, {"FAN_MARK_REMOVE", "FAN_MARK_DONT_FOLLOW"}, events, TRUE, kerr)
    /\ UNCHANGED fault

AddPath(recv, path, events, kerr) ==
    /\ Called("AddPath", recv, path, events)
    /\ fanotifyMark(recv, path, {"FAN_MARK_ADD"}, events, FALSE, kerr)
    /\ UNCHANGED fault

RemovePath(recv, path, events, kerr) ==
    /\ Called("RemovePath", recv, path, events)
    /\ fanotifyMark(recv, path, {"FAN_MARK_REMOVE"}, events, TRUE, kerr)
    /\ UNCHANGED fault

(***************************************************************************)
(* RemoveAll and ClearWatch: the kernel flush.                             *)
(***************************************************************************)
\* mutant: the flush leaves the tracked set as it was
flushWatchesKeep(w, kerr) == w

\* l.watches after the flush call returned kerr
flushWatches(w, kerr) ==
    IF kerr = "nil" THEN {} ELSE w

\* unix.FanotifyMark(l.fd, FAN_MARK_FLUSH, 0, -1, "") and what follows it
flushBody(kerr) ==
    /\ flushCalls' = flushCalls + 1
    /\ ret' = kerr
    /\ watches' = flushWatches(watches, kerr)
    /\ kernelMarks' = kernelFlush(kernelMarks, kerr)
    /\ UNCHANGED markCalls

RemoveAll(recv, kerr) ==
    /\ Called("RemoveAll", recv, "", {})
    /\ IF recv = "nil"
          THEN /\ ret' = "ErrNilListener"
               /\ UNCHANGED <<watches, markCalls, flushCalls, kernelMarks>>
          ELSE flushBody(kerr)
    /\ UNCHANGED fault

ClearWatch(recv, kerr) ==
    /\ Called("ClearWatch", recv, "", {})
    /\ IF recv = "nil"
          THEN /\ fault' = "nil listener"
               /\ UNCHANGED <<watches, markCalls, flushCalls, kernelMarks, ret>>
          ELSE /\ flushBody(kerr)
               /\ UNCHANGED fault

(***************************************************************************)
(* The mark operations of the entireMount listener.  They call the         *)
(* three-argument fanotifyMark(path, flags, mask), whose validation is     *)
(* modelled from the specification: a whole-mount mark is rejected with    *)
(* ErrWatchPath on a per-path listener and with ErrInvalidFlagCombination  *)
(* when its mask holds a directory-modification event, both before any     *)
(* kernel call; a mark that passes is tracked as in fanotifyMark above,    *)
(* the operation being a remove when FAN_MARK_REMOVE is set.               *)
(***************************************************************************)
\* mutant: a whole-mount mark is accepted whatever its mask
markRejectionModeOnly(em, flags, mask) ==
    IF "FAN_MARK_MOUNT" \in flags /\ ~em THEN "ErrWatchPath" ELSE "nil"

\* mutant: a whole-mount mark is accepted on a per-path listener
markRejectionMaskOnly(em, flags, mask) ==
    IF "FAN_MARK_MOUNT" \in flags /\ mask \cap DirModEvents # {}
        THEN "ErrInvalidFlagCombination" ELSE "nil"

\* the configuration error of a mark, "nil" when it is valid
markRejection(em, flags, mask) ==
    IF "FAN_MARK_MOUNT" \in flags /\ ~em THEN "ErrWatchPath"
    ELSE IF "FAN_MARK_MOUNT" \in flags /\ mask \cap DirModEvents # {}
        THEN "ErrInvalidFlagCombination"
    ELSE "nil"

fanotifyMarkChecked(path, flags, mask, kerr) ==
    LET rej == markRejection(entireMount, flags, mask)
    IN  IF rej # "nil"
            THEN /\ ret' = rej
                 /\ UNCHANGED <<watches, markCalls, flushCalls, kernelMarks>>
            ELSE fanotifyMarkBody(path, flags, mask, "FAN_MARK_REMOVE" \in flags, kerr)

\* l.mountpoint on a nil listener is a nil pointer dereference
WatchMount(recv, eventTypes, kerr) ==
    /\ Called("WatchMount", recv, MountPointName, eventTypes)
    /\ IF recv = "nil"
          THEN /\ fault' = "nil pointer dereference"
               /\ UNCHANGED <<watches, markCalls, flushCalls, kernelMarks, ret>>
          ELSE /\ fanotifyMarkChecked(MountPointName,
                      {"FAN_MARK_ADD", "FAN_MARK_MOUNT"}, eventTypes, kerr)
               /\ UNCHANGED fault

UnwatchMount(recv, eventTypes, kerr) ==
    /\ Called("UnwatchMount", recv, MountPointName, eventTypes)
    /\ IF recv = "nil"
          THEN /\ fault' = "nil pointer dereference"
               /\ UNCHANGED <<watches, markCalls, flushCalls, kernelMarks, ret>>
          ELSE /\ fanotifyMarkChecked(MountPointName,
                      {"FAN_MARK_REMOVE", "FAN_MARK_MOUNT"}, eventTypes, kerr)
               /\ UNCHANGED fault

\* mutant: the per-path operations do not look at the mode
perPathRejectedNever(em) == FALSE

\* if l.entireMount { return os.ErrInvalid }
perPathRejected(em) == em

AddWatch(recv, path, eventTypes, kerr) ==
    /\ Called("AddWatch", recv, path, eventTypes)
    /\ IF recv = "nil"
          THEN /\ fault' = "nil listener"
               /\ UNCHANGED <<watches, markCalls, flushCalls, kernelMarks, ret>>
          ELSE /\ IF perPathRejected(entireMount)
                     THEN /\ ret' = "os.ErrInvalid"
                          /\ UNCHANGED <<watches, markCalls, flushCalls, kernelMarks>>
                     ELSE fanotifyMarkChecked(path, {"FAN_MARK_ADD"},
                              eventTypes \cup {"FAN_EVENT_ON_CHILD"}, kerr)
               /\ UNCHANGED fault

DeleteWatch(recv, parentDir, eventTypes, kerr) ==
    /\ Called("DeleteWatch", recv, parentDir, eventTypes)
    /\ IF recv = "nil"
          THEN /\ fault' = "nil pointer dereference"
               /\ UNCHANGED <<watches, markCalls, flushCalls, kernelMarks, ret>>
          ELSE /\ IF perPathRejected(entireMount)
                     THEN /\ ret' = "os.ErrInvalid"
                          /\ UNCHANGED <<watches, markCalls, flushCalls, kernelMarks>>
                     ELSE fanotifyMarkChecked(parentDir, {"FAN_MARK_REMOVE"},
                              eventTypes \cup {"FAN_EVENT_ON_CHILD"}, kerr)
               /\ UNCHANGED fault

(***************************************************************************)
(* The wire format.  Offsets count from 0; buf holds the bytes written by  *)
(* the reads so far and is zero beyond them.                               *)
(***************************************************************************)
\* unsafe.Sizeof(unix.FanotifyEventMetadata{})
sizeOfFanotifyEventMetadata == 24

\* unix.FANOTIFY_METADATA_VERSION
FANOTIFY_METADATA_VERSION == 3

\* unix.FAN_NOFD
FAN_NOFD == -1

\* unix.FAN_EVENT_INFO_TYPE_FID, _DFID_NAME, _DFID
FAN_EVENT_INFO_TYPE_FID == 1

FAN_EVENT_INFO_TYPE_DFID_NAME == 2

FAN_EVENT_INFO_TYPE_DFID == 3

\* unix.NAME_MAX
NAME_MAX == 255

\* len(buf): 4096 * sizeOfFanotifyEventMetadata
BufSize == 98304

\* unsafe.Sizeof(fanotifyEventInfoHeader{}), unsafe.Sizeof(kernelFSID{}),
\* unsafe.Sizeof(fhSize)
sizeOfFanotifyEventInfoHeader == 4

sizeOfKernelFSIDType == 8

sizeOfUint32 == 4

\* a uint32 of 2^31 or more: such a value only ever takes part in comparisons
\* with offsets below BufSize, where all of them behave alike
HugeUint32 == 65536 * 32767 + 65535

\* buf[o]
U8(b, o) == IF o < Len(b) THEN b[o + 1] ELSE 0

\* a little-endian uint16 at offset o
LE16(b, o) == U8(b, o) + 256 * U8(b, o + 1)

\* a little-endian uint32 at offset o
LE32(b, o) ==
    IF U8(b, o + 3) >= 128
        THEN HugeUint32
        ELSE U8(b, o) + 256 * U8(b, o + 1) + 65536 * U8(b, o + 2)
                 + 16777216 * U8(b, o + 3)

\* a little-endian int32 at offset o
LE32s(b, o) ==
    U8(b, o) + 256 * U8(b, o + 1) + 65536 * U8(b, o + 2)
        + 16777216 * (IF U8(b, o + 3) >= 128 THEN U8(b, o + 3) - 256 ELSE U8(b, o + 3))

\* the bits set in byte v, numbered from base
ByteBits(v, base) ==
    {base + k : k \in {k \in 0..7 : (v \div (2 ^ k)) % 2 = 1}}

\* a little-endian uint64 at offset o, as the set of its set bits
LE64Bits(b, o) ==
    UNION {ByteBits(U8(b, o + k), 8 * k) : k \in 0..7}

\* the fields of the unix.FanotifyEventMetadata at offset o
Event_len(b, o) == LE32(b, o)

Vers(b, o) == U8(b, o + 4)

Metadata_len(b, o) == LE16(b, o + 6)

Mask(b, o) == LE64Bits(b, o + 8)

Fd(b, o) == LE32s(b, o + 16)

Pid(b, o) == LE32s(b, o + 20)

\* fid.Header.InfoType of the fanotifyEventInfoFID at offset o
InfoType(b, o) == U8(b, o)

\* mutant: the declared length is not compared with the bytes left
fanotifyEventOKNoUpper(b, o, left) ==
    /\ left >= sizeOfFanotifyEventMetadata
    /\ Event_len(b, o) >= sizeOfFanotifyEventMetadata

fanotifyEventOK(b, o, left) ==
    /\ left >= sizeOfFanotifyEventMetadata
    /\ Event_len(b, o) >= sizeOfFanotifyEventMetadata
    /\ Event_len(b, o) <= left

\* getFileHandle, getFileHandleWithName: the offset of handle_bytes
HandleOff(b, o) ==
    o + Metadata_len(b, o) + sizeOfFanotifyEventInfoHeader + sizeOfKernelFSIDType

\* fhSize
HandleBytes(b, o) == LE32(b, HandleOff(b, o))

\* the offset of the first byte after the file handle
NameOff(b, o) == HandleOff(b, o) + sizeOfUint32 + sizeOfUint32 + HandleBytes(b, o)

\* buf[j:j+fhSize] is inside buf
HandleInBuf(b, o) ==
    /\ HandleOff(b, o) + sizeOfUint32 + sizeOfUint32 <= BufSize
    /\ HandleBytes(b, o) <= BufSize - (HandleOff(b, o) + sizeOfUint32 + sizeOfUint32)

\* the name loop of getFileHandleWithName: the bytes from offset j up to the
\* first NUL, at most left of them
\* mutant: the byte at j is taken as a name byte even when it is NUL
NameFromFirstByte(b, j, left) == <<U8(b, j)>>

RECURSIVE NameFrom(_, _, _)
NameFrom(b, j, left) ==
    IF left = 0 \/ U8(b, j) = 0
        THEN <<>>
        ELSE <<U8(b, j)>> \o NameFrom(b, j + 1, left - 1)

\* the name loop indexes buf[i] for i < j + NAME_MAX: it leaves buf when no
\* NUL comes before the end of buf
NameInBuf(b, j) ==
    j + Len(NameFrom(b, j, NAME_MAX)) < BufSize

(***************************************************************************)
(* The buffers read(2) returns, as the kernel lays them out.               *)
(***************************************************************************)
Enc16(x) == <<x % 256, x \div 256>>

Enc32(x) == <<x % 256, (x \div 256) % 256, (x \div 65536) % 256, x \div 16777216>>

NoFdBytes == <<255, 255, 255, 255>>

\* a metadata header: event_len, vers, reserved, metadata_len, mask
\* (FAN_MODIFY), fd, pid
MetaBytes(eventLen, vers, fdBytes) ==
    Enc32(eventLen) \o <<vers, 0>> \o Enc16(sizeOfFanotifyEventMetadata)
        \o <<2, 0, 0, 0, 0, 0, 0, 0>> \o fdBytes \o Enc32(77)

\* a record that carries an open descriptor
FdRecord(vers) == MetaBytes(sizeOfFanotifyEventMetadata, vers, Enc32(7))

\* an info record: header, fsid, handle_bytes, handle_type, a two-byte
\* handle and what follows it
InfoBytes(infoType, tail) ==
    <<infoType, 0>> \o Enc16(22 + Len(tail)) \o <<1, 0, 0, 0, 2, 0, 0, 0>>
        \o Enc32(2) \o Enc32(1) \o <<171, 205>> \o tail

\* a record that carries a file identifier
FidRecord(vers, infoType, tail) ==
    MetaBytes(sizeOfFanotifyEventMetadata + 22 + Len(tail), vers, NoFdBytes)
        \o InfoBytes(infoType, tail)

\* a record whose declared length exceeds the bytes that follow
TruncatedRecord ==
    MetaBytes(sizeOfFanotifyEventMetadata + 40, FANOTIFY_METADATA_VERSION, Enc32(7))

\* a record of the header alone with the descriptor FAN_NOFD, as the kernel
\* sends for a queue overflow
NoFdRecord ==
    MetaBytes(sizeOfFanotifyEventMetadata, FANOTIFY_METADATA_VERSION, NoFdBytes)

\* a record with a file identifier whose handle_bytes field (200) claims
\* more bytes than the record has
LongHandleRecord ==
    MetaBytes(sizeOfFanotifyEventMetadata + 22, FANOTIFY_METADATA_VERSION, NoFdBytes)
        \o <<FAN_EVENT_INFO_TYPE_FID, 0>> \o Enc16(22) \o <<1, 0, 0, 0, 2, 0, 0, 0>>
        \o Enc32(200) \o Enc32(1) \o <<171, 205>>

Buffers ==
    { NoFdRecord \o FdRecord(FANOTIFY_METADATA_VERSION),
      FdRecord(2),
      FidRecord(FANOTIFY_METADATA_VERSION, FAN_EVENT_INFO_TYPE_FID, <<>>)
          \o FdRecord(2),
      FidRecord(FANOTIFY_METADATA_VERSION, FAN_EVENT_INFO_TYPE_DFID_NAME, <<0>>)
          \o FidRecord(FANOTIFY_METADATA_VERSION, FAN_EVENT_INFO_TYPE_DFID, <<>>)
          \o TruncatedRecord,
      FidRecord(FANOTIFY_METADATA_VERSION, FAN_EVENT_INFO_TYPE_DFID_NAME, <<102, 0>>)
          \o FidRecord(FANOTIFY_METADATA_VERSION, FAN_EVENT_INFO_TYPE_FID, <<>>),
      LongHandleRecord }

(***************************************************************************)
(* The listener after construction, as far as Start, Stop and readEvents   *)
(* use it: the queue is open and empty, the mountpoint and both ends of    *)
(* the stopper pipe are open, the kernel has queued nothing.               *)
(***************************************************************************)
\* var fds [2]unix.PollFd before the first unix.Poll
NoWait == [n |-> 0, err |-> "nil", fan |-> "0", stop |-> "0"]

NoEvent == [Fd |-> 0, Path |-> <<>>, FileName |-> <<>>, Mask |-> {}, Pid |-> 0]

InitLoop ==
    /\ loopPc = "idle"
    /\ loopExit = "none"
    /\ stopFd = "none"
    /\ pollHeld = FALSE
    /\ wait = NoWait
    /\ retries = 0
    /\ buf = <<>>
    /\ n = 0
    /\ i = 0
    /\ meta = 0
    /\ fileName = <<>>
    /\ ev = NoEvent
    /\ pushedOffs = {}
    /\ nextFd = 8
    /\ Events = <<>>
    /\ eventsClosed = FALSE
    /\ mountOpen = TRUE
    /\ stopROpen = TRUE
    /\ stopWOpen = TRUE
    /\ stopperData = FALSE
    /\ stopPc = "none"
    /\ stopCalls = 0
    /\ pending = <<>>
    /\ reads = 0

\* the listener NewListener returns
Init ==
    /\ InitRegistry
    /\ InitLoop
    /\ fault = "none"
    /\ fn = "none"
    /\ args = <<>>
    /\ out = <<>>

(***************************************************************************)
(* The environment: the kernel queues a buffer for the next read, and the  *)
(* consumer takes an Event off the queue.                                  *)
(***************************************************************************)
SyscallResults == {"ok", "err"}

KernelDeliver ==
    /\ fault = "none"
    /\ pending = <<>>
    /\ reads < MaxReads
    /\ \E b \in Buffers : pending' = b
    /\ reads' = reads + 1
    /\ UNCHANGED <<regVars, fnVars, loopVars, resVars, stopVars, fault>>

Receive ==
    /\ fault = "none"
    /\ Events # <<>>
    /\ Events' = Tail(Events)
    /\ UNCHANGED <<regVars, fnVars, loopVars, eventsClosed, mountOpen, stopROpen,
                   stopWOpen, stopperData, stopVars, kernelVars, fault>>

(***************************************************************************)
(* Start: the poll loop.                                                   *)
(***************************************************************************)
\* Start up to the first call of unix.Poll
Start(recv) ==
    /\ fault = "none"
    /\ loopPc = "idle"
    /\ IF recv = "nil"
          THEN /\ fault' = "nil listener"
               /\ UNCHANGED <<regVars, fnVars, lsVars>>
          ELSE /\ loopPc' = "poll"
               /\ stopFd' = IF stopROpen THEN "valid" ELSE "-1"
               /\ UNCHANGED <<regVars, fnVars, loopExit, pollHeld, pollVars, decodeVars,
                              resVars, stopVars, kernelVars, fault>>

\* unix.Poll is entered: the kernel takes its reference to the stopper's read
\* end if fds[1].Fd still names it
PollEnter ==
    /\ fault = "none"
    /\ loopPc = "poll"
    /\ loopPc' = "polling"
    /\ pollHeld' = (stopFd = "valid" /\ stopROpen)
    /\ UNCHANGED <<regVars, fnVars, loopExit, stopFd, pollVars, decodeVars, resVars,
                   stopVars, kernelVars, fault>>

\* fds[1].Revents: POLLIN when the pipe has data; a descriptor number closed
\* before the call reports POLLNVAL, or whatever the file that took the
\* number since reports; a negative descriptor is ignored
StopperRevents ==
    IF stopFd = "-1" THEN {"0"}
    ELSE IF pollHeld THEN (IF stopperData THEN {"POLLIN"} ELSE {"0"})
    ELSE {"POLLNVAL", "POLLIN"}

\* fds[0].Revents
FanotifyRevents == IF pending # <<>> THEN "POLLIN" ELSE "0"

\* the results of unix.Poll with no descriptor reported: the empty wakeup,
\* the interrupt, and another error
PollEmpty == {<<0, "nil">>, <<-1, "EINTR">>, <<-1, "ENOMEM">>}

\* the number of descriptors with revents set
Ready(fan, stop) ==
    (IF fan # "0" THEN 1 ELSE 0) + (IF stop # "0" THEN 1 ELSE 0)

\* mutant: every error of unix.Poll is tried again
pollOutcomeRetryAll(nReady, err) ==
    IF nReady = 0 \/ err # "nil" THEN "continue" ELSE "dispatch"

\* what Start does with n and err of unix.Poll
pollOutcome(nReady, err) ==
    IF nReady = 0 THEN "continue"
    ELSE IF err # "nil"
        THEN (IF err = "EINTR" THEN "continue" ELSE "return")
    ELSE "dispatch"

\* mutant: the group is looked at before the stopper
pollDispatchGroupFirst(stop, fan) ==
    IF fan = "POLLIN" THEN "readEvents"
    ELSE IF stop = "POLLIN" THEN "return"
    ELSE "continue"

\* what Start does with the revents of a wakeup: fds[1], the stopper, is
\* looked at first
pollDispatch(stop, fan) ==
    IF stop = "POLLIN" THEN "return"
    ELSE IF fan = "POLLIN" THEN "readEvents"
    ELSE "continue"

\* unix.Poll returns with something ready, and the rest of the loop body
PollReturn ==
    /\ fault = "none"
    /\ loopPc = "polling"
    /\ \E r1 \in StopperRevents :
        /\ r1 # "0" \/ FanotifyRevents # "0"
        /\ pollOutcome(Ready(FanotifyRevents, r1), "nil") = "dispatch"
        /\ wait' = [n |-> Ready(FanotifyRevents, r1), err |-> "nil",
                    fan |-> FanotifyRevents, stop |-> r1]
        /\ retries' = 0
        /\ IF pollDispatch(r1, FanotifyRevents) = "return"
              THEN /\ loopPc' = "returned"
                   /\ loopExit' = "stopper"
                   /\ UNCHANGED decodeVars
              ELSE IF pollDispatch(r1, FanotifyRevents) = "readEvents"
              THEN /\ loopPc' = "read"
                   /\ loopExit' = loopExit
                   /\ buf' = <<>>
                   /\ fileName' = <<>>
                   /\ n' = 0
                   /\ i' = 0
                   /\ meta' = 0
                   /\ pushedOffs' = {}
                   /\ UNCHANGED <<ev, nextFd>>
              ELSE /\ loopPc' = "poll"
                   /\ UNCHANGED <<loopExit, decodeVars>>
    /\ UNCHANGED <<regVars, fnVars, stopFd, pollHeld, resVars, stopVars, kernelVars, fault>>

\* unix.Poll returns with nothing ready or with EINTR: Start calls it again
PollRetry ==
    /\ fault = "none"
    /\ loopPc = "polling"
    /\ retries < MaxRetries
    /\ \E w \in PollEmpty :
        /\ pollOutcome(w[1], w[2]) = "continue"
        /\ wait' = [n |-> w[1], err |-> w[2], fan |-> "0", stop |-> "0"]
    /\ retries' = retries + 1
    /\ loopPc' = "poll"
    /\ UNCHANGED <<regVars, fnVars, loopExit, stopFd, pollHeld, decodeVars, resVars,
                   stopVars, kernelVars, fault>>

\* unix.Poll fails with an error other than EINTR: Start returns
PollFails ==
    /\ fault = "none"
    /\ loopPc = "polling"
    /\ \E w \in PollEmpty :
        /\ pollOutcome(w[1], w[2]) = "return"
        /\ wait' = [n |-> w[1], err |-> w[2], fan |-> "0", stop |-> "0"]
    /\ loopPc' = "returned"
    /\ loopExit' = "poll error"
    /\ UNCHANGED <<regVars, fnVars, stopFd, pollHeld, retries, decodeVars, resVars,
                   stopVars, kernelVars, fault>>

(***************************************************************************)
(* readEvents.                                                             *)
(***************************************************************************)
\* copy(buf, b): the bytes read replace the head of buf, the rest stays
Overwrite(old, b) ==
    IF Len(b) >= Len(old) THEN b ELSE b \o SubSeq(old, Len(b) + 1, Len(old))

\* unix.Read returns a buffer; a short one ends readEvents, which Start
\* follows with the next unix.Poll
ReadReturns ==
    /\ fault = "none"
    /\ loopPc = "read"
    /\ pending # <<>>
    /\ buf' = Overwrite(buf, pending)
    /\ n' = Len(pending)
    /\ pending' = <<>>
    /\ pushedOffs' = {}
    /\ IF Len(pending) = 0 \/ Len(pending) < sizeOfFanotifyEventMetadata
          THEN /\ loopPc' = "poll"
               /\ UNCHANGED <<i, meta>>
          ELSE /\ loopPc' = "decode"
               /\ i' = 0
               /\ meta' = 0
    /\ UNCHANGED <<regVars, fnVars, loopExit, stopFd, pollHeld, pollVars, fileName, ev, nextFd,
                   resVars, stopVars, reads, fault>>

\* unix.Read fails with an error other than EINTR: readEvents returns it and
\* Start, which ignores it, polls again
ReadFails ==
    /\ fault = "none"
    /\ loopPc = "read"
    /\ loopPc' = "poll"
    /\ UNCHANGED <<regVars, fnVars, loopExit, stopFd, pollHeld, pollVars, decodeVars,
                   resVars, stopVars, kernelVars, fault>>

\* mutant: any format version is accepted
versOKAlways(b, o) == TRUE

\* metadata.Vers == unix.FANOTIFY_METADATA_VERSION
versOK(b, o) == Vers(b, o) = FANOTIFY_METADATA_VERSION

\* i += Event_len; n -= Event_len; metadata = &buf[i]
Advance(from) ==
    /\ i' = from + Event_len(buf, meta)
    /\ n' = n - Event_len(buf, meta)
    /\ meta' = from + Event_len(buf, meta)

\* the Path of an Event: what /proc/self/fd/<fd> links to
PathOf(fd) == <<"target of", fd>>

\* the Pid of an Event whose literal names Fd, Path, FileName and Mask only:
\* the zero value
NoPid == 0

\* the branch of a record with an open descriptor: up to the push
DecodeFd(readlink) ==
    IF readlink = "err"
        THEN /\ Advance(i)
             /\ UNCHANGED <<loopPc, fileName, ev, nextFd, fault>>
        ELSE /\ ev' = [Fd |-> Fd(buf, meta), Path |-> PathOf(Fd(buf, meta)),
                       FileName |-> <<>>, Mask |-> Mask(buf, meta),
                       Pid |-> NoPid]
             /\ loopPc' = "push"
             /\ UNCHANGED <<n, i, meta, fileName, nextFd, fault>>

\* the switch on fid.Header.InfoType: the record is stepped over, or its
\* handle is taken without or with a name; the listener's flagFidType is
\* not looked at
infoTypeSwitch(infoType) ==
    IF infoType = FAN_EVENT_INFO_TYPE_FID THEN "handle"
    ELSE IF infoType = FAN_EVENT_INFO_TYPE_DFID THEN "handle"
    ELSE IF infoType = FAN_EVENT_INFO_TYPE_DFID_NAME THEN "handle with name"
    ELSE "skip"

\* fid = &buf[i+int(metadata.Metadata_len)]: where the info header is read
InfoOff(b, o, m) == o + Metadata_len(b, m)

\* the branch of a record with a file identifier: up to the push
DecodeFid(open, readlink) ==
    LET infoType == InfoType(buf, InfoOff(buf, i, meta))
        withName == infoTypeSwitch(infoType) = "handle with name"
        name     == NameFrom(buf, NameOff(buf, i), NAME_MAX)
        newName  == IF withName THEN name ELSE fileName
        newI     == IF withName THEN i + Len(name) ELSE i
    IN  IF InfoOff(buf, i, meta) >= BufSize
            THEN /\ fault' = "index out of range"
                 /\ UNCHANGED <<loopPc, n, i, meta, fileName, ev, nextFd>>
        ELSE IF infoTypeSwitch(infoType) = "skip"
            THEN /\ Advance(i)
                 /\ UNCHANGED <<loopPc, fileName, ev, nextFd, fault>>
        ELSE IF ~HandleInBuf(buf, i)
            THEN /\ fault' = "slice bounds out of range"
                 /\ UNCHANGED <<loopPc, n, i, meta, fileName, ev, nextFd>>
        ELSE IF withName /\ ~NameInBuf(buf, NameOff(buf, i))
            THEN /\ fault' = "index out of range"
                 /\ UNCHANGED <<loopPc, n, i, meta, fileName, ev, nextFd>>
        ELSE IF open = "err" \/ ~mountOpen
            THEN /\ fileName' = newName
                 /\ Advance(newI)
                 /\ UNCHANGED <<loopPc, ev, nextFd, fault>>
        ELSE IF readlink = "err"
            THEN /\ fault' = "slice bounds out of range"
                 /\ fileName' = newName
                 /\ i' = newI
                 /\ nextFd' = nextFd + 1
                 /\ UNCHANGED <<loopPc, n, meta, ev>>
        ELSE /\ fileName' = newName
             /\ i' = newI
             /\ nextFd' = nextFd + 1
             /\ ev' = [Fd |-> nextFd, Path |-> PathOf(nextFd),
                       FileName |-> newName, Mask |-> Mask(buf, meta),
                       Pid |-> NoPid]
             /\ loopPc' = "push"
             /\ UNCHANGED <<n, meta, fault>>

\* one pass of the loop over the records of buf, up to its push or its end
Decode ==
    /\ fault = "none"
    /\ loopPc = "decode"
    /\ IF ~fanotifyEventOK(buf, meta, n)
          THEN /\ loopPc' = "read"
               /\ UNCHANGED <<n, i, meta, fileName, ev, nextFd, fault>>
       ELSE IF ~versOK(buf, meta)
          THEN /\ fault' = "metadata version"
               /\ UNCHANGED <<loopPc, n, i, meta, fileName, ev, nextFd>>
       ELSE IF Fd(buf, meta) # FAN_NOFD
          THEN \E readlink \in SyscallResults : DecodeFd(readlink)
          ELSE \E open \in SyscallResults, readlink \in SyscallResults :
                   DecodeFid(open, readlink)
    /\ UNCHANGED <<regVars, fnVars, loopExit, stopFd, pollHeld, pollVars, buf, pushedOffs,
                   resVars, stopVars, kernelVars>>

\* l.Events <- event, and what follows it in the pass: the record with a
\* file identifier is stepped over, the one with a descriptor is not
Push ==
    /\ fault = "none"
    /\ loopPc = "push"
    /\ IF eventsClosed
          THEN /\ fault' = "send on closed channel"
               /\ UNCHANGED <<loopPc, n, i, meta, pushedOffs, Events>>
          ELSE /\ Len(Events) < QueueCap
               /\ Events' = Append(Events, ev)
               /\ pushedOffs' = pushedOffs \cup {meta}
               /\ loopPc' = "decode"
               /\ IF Fd(buf, meta) # FAN_NOFD
                     THEN UNCHANGED <<n, i, meta>>
                     ELSE Advance(i)
               /\ fault' = fault
    /\ UNCHANGED <<regVars, fnVars, loopExit, stopFd, pollHeld, pollVars, buf, fileName, ev,
                   nextFd, eventsClosed, mountOpen, stopROpen, stopWOpen,
                   stopperData, stopVars, kernelVars>>

(***************************************************************************)
(* Stop, statement by statement.                                           *)
(***************************************************************************)
\* Stop is called: on a nil listener it returns at once, on any other it
\* goes on to its first statement
StopCall(recv) ==
    /\ fault = "none"
    /\ stopPc = "none"
    /\ stopCalls < MaxStops
    /\ IF recv = "nil"
          THEN UNCHANGED <<stopCalls, stopPc>>
          ELSE /\ stopCalls' = stopCalls + 1
               /\ stopPc' = "write"
    /\ UNCHANGED <<regVars, fnVars, loopVars, resVars, kernelVars, fault>>

\* unix.Write(int(l.stopper.w.Fd()), []byte("stop")), its result ignored
StopWrite ==
    /\ fault = "none"
    /\ stopPc = "write"
    /\ stopperData' = (stopperData \/ stopWOpen)
    /\ stopPc' = "closeMount"
    /\ UNCHANGED <<regVars, fnVars, loopVars, Events, eventsClosed, mountOpen,
                   stopROpen, stopWOpen, stopCalls, kernelVars, fault>>

\* l.mountpoint.Close()
StopCloseMount ==
    /\ fault = "none"
    /\ stopPc = "closeMount"
    /\ mountOpen' = FALSE
    /\ stopPc' = "closeR"
    /\ UNCHANGED <<regVars, fnVars, loopVars, Events, eventsClosed, stopROpen,
                   stopWOpen, stopperData, stopCalls, kernelVars, fault>>

\* l.stopper.r.Close()
StopCloseR ==
    /\ fault = "none"
    /\ stopPc = "closeR"
    /\ stopROpen' = FALSE
    /\ stopPc' = "closeW"
    /\ UNCHANGED <<regVars, fnVars, loopVars, Events, eventsClosed, mountOpen,
                   stopWOpen, stopperData, stopCalls, kernelVars, fault>>

\* l.stopper.w.Close()
StopCloseW ==
    /\ fault = "none"
    /\ stopPc = "closeW"
    /\ stopWOpen' = FALSE
    /\ stopPc' = "closeEvents"
    /\ UNCHANGED <<regVars, fnVars, loopVars, Events, eventsClosed, mountOpen,
                   stopROpen, stopperData, stopCalls, kernelVars, fault>>

\* close(l.Events): closing a closed channel panics
StopCloseEvents ==
    /\ fault = "none"
    /\ stopPc = "closeEvents"
    /\ IF eventsClosed
          THEN /\ fault' = "close of closed channel"
               /\ UNCHANGED <<eventsClosed, stopPc>>
          ELSE /\ eventsClosed' = TRUE
               /\ stopPc' = "none"
               /\ fault' = fault
    /\ UNCHANGED <<regVars, fnVars, loopVars, Events, mountOpen, stopROpen, stopWOpen,
                   stopperData, stopCalls, kernelVars>>

(***************************************************************************)
(* The loop specification: one Start, Stop calls from another thread, the  *)
(* kernel and the consumer.                                                *)
(***************************************************************************)
LoopStep ==
    \/ PollEnter
    \/ PollReturn
    \/ ReadReturns
    \/ Decode
    \/ Push

StopStep ==
    \/ StopWrite
    \/ StopCloseMount
    \/ StopCloseR
    \/ StopCloseW
    \/ StopCloseEvents

LoopNext ==
    \/ \E recv \in Receivers : Start(recv)
    \/ LoopStep
    \/ PollRetry
    \/ PollFails
    \/ ReadFails
    \/ \E recv \in Receivers : StopCall(recv)
    \/ StopStep
    \/ KernelDeliver
    \/ Receive

LoopSpec == Init /\ [][LoopNext]_vars

\* every thread that can take a step eventually takes one; the kernel and
\* the failures of system calls are under no obligation
LoopFairSpec ==
    /\ Init
    /\ [][LoopNext]_vars
    /\ WF_vars(LoopStep)
    /\ WF_vars(StopStep)
    /\ WF_vars(Receive)

(***************************************************************************)
(* EventType: a uint64 used as a set of bits.  The model keeps the lowest  *)
(* EventTypeBits bits.                                                     *)
(***************************************************************************)
EventTypeBits == 4

EventTypes == 0..(2 ^ EventTypeBits - 1)

\* a & b
RECURSIVE BitAnd(_, _)
BitAnd(a, b) ==
    IF a = 0 \/ b = 0 THEN 0
    ELSE (a % 2) * (b % 2) + 2 * BitAnd(a \div 2, b \div 2)

\* a | b
RECURSIVE BitOr(_, _)
BitOr(a, b) ==
    IF a = 0 THEN b
    ELSE IF b = 0 THEN a
    ELSE (IF a % 2 = 1 \/ b % 2 = 1 THEN 1 ELSE 0) + 2 * BitOr(a \div 2, b \div 2)

\* func (e EventType) Has(et EventType) bool
Has(e, et) == BitAnd(e, et) = et

\* mutant: the two sets are intersected
OrAsAnd(e, et) == BitAnd(e, et)

\* func (e EventType) Or(et EventType) EventType
Or(e, et) == BitOr(e, et)

\* Or and Has applied to three event types
ApplyOrHas(m1, m2, m3) ==
    /\ fn = "none"
    /\ fn' = "Or/Has"
    /\ args' = <<m1, m2, m3>>
    /\ out' = [or12   |-> Or(m1, m2),
               or21   |-> Or(m2, m1),
               or12_3 |-> Or(Or(m1, m2), m3),
               or1_23 |-> Or(m1, Or(m2, m3)),
               or11   |-> Or(m1, m1),
               has1   |-> Has(Or(m1, m2), m1),
               has2   |-> Has(Or(m1, m2), m2)]
    /\ UNCHANGED <<regVars, lsVars, fault>>

(***************************************************************************)
(* Construction: kernelVersion, flagsValid, checkFlagsKernelSupport and    *)
(* newListener(mountpointPath, flags, eventFlags, maxEvents).              *)
(***************************************************************************)
\* the flags of fanotify_init, as golang.org/x/sys/unix defines them
FAN_CLASS_NOTIF == 0

FAN_CLASS_CONTENT == 4

FAN_CLASS_PRE_CONTENT == 8

FAN_ENABLE_AUDIT == 64

FAN_REPORT_FID == 512

FAN_REPORT_DIR_FID == 1024

FAN_REPORT_NAME == 2048

FAN_REPORT_DFID_NAME == 3072

InitFlagBits ==
    {FAN_CLASS_CONTENT, FAN_CLASS_PRE_CONTENT, FAN_ENABLE_AUDIT,
     FAN_REPORT_FID, FAN_REPORT_DIR_FID, FAN_REPORT_NAME}

RECURSIVE SumOf(_)
SumOf(S) ==
    IF S = {} THEN 0
    ELSE LET x == CHOOSE y \in S : TRUE IN x + SumOf(S \ {x})

\* the flags argument: any combination of the flags above
InitFlags == {SumOf(S) : S \in SUBSET InitFlagBits}

\* what the regular expression ([0-9]+) finds in the release string of
\* uname: the numbers in it, in order; TooBig is a number strconv.Atoi
\* rejects
TooBig == -1

Releases ==
    { <<5, 9, 0>>, <<5, 1, 3>>, <<5, 0, 0>>, <<4, 15, 1>>, <<4, 14, 2>>,
      <<6, 1, 0, 1>>, <<5, 4>>, <<>>, <<5, TooBig, 0>> }

\* kernelVersion(): maj, min, err and the panic of an index past the end of
\* version
kernelVersion(unameErr, version) ==
    LET r(maj, min, err, flt) == [maj |-> maj, min |-> min, err |-> err, fault |-> flt]
    IN  IF unameErr THEN r(0, 0, "uname", "none")
        ELSE IF Len(version) < 1 THEN r(0, 0, "nil", "index out of range")
        ELSE IF version[1] = TooBig THEN r(0, 0, "atoi", "none")
        ELSE IF Len(version) < 2 THEN r(version[1], 0, "nil", "index out of range")
        ELSE IF version[2] = TooBig THEN r(version[1], 0, "atoi", "none")
        ELSE IF Len(version) < 3 THEN r(version[1], version[2], "nil", "index out of range")
        ELSE IF version[3] = TooBig THEN r(version[1], version[2], "atoi", "none")
        ELSE r(version[1], version[2], "nil", "none")

\* isSet := func(n, k uint) bool { return n&k == k }
isSet(nn, k) == BitAnd(nn, k) = k

\* mutant: the class flags are not looked at
flagsValidNameOnly(flags) ==
    IF isSet(flags, FAN_REPORT_NAME) /\ ~isSet(flags, FAN_REPORT_DIR_FID)
        THEN "FAN_REPORT_NAME must be set with FAN_REPORT_DIR_FID"
        ELSE "nil"

\* flagsValid(flags): the error, "nil" for none
flagsValid(flags) ==
    IF isSet(flags, BitOr(FAN_REPORT_FID, FAN_CLASS_CONTENT))
        THEN "FAN_REPORT_FID cannot be set with FAN_CLASS_CONTENT"
    ELSE IF isSet(flags, BitOr(FAN_REPORT_FID, FAN_CLASS_PRE_CONTENT))
        THEN "FAN_REPORT_FID cannot be set with FAN_CLASS_PRE_CONTENT"
    ELSE IF isSet(flags, FAN_REPORT_NAME) /\ ~isSet(flags, FAN_REPORT_DIR_FID)
        THEN "FAN_REPORT_NAME must be set with FAN_REPORT_DIR_FID"
    ELSE "nil"

\* flagPerKernelVersion
flagPerKernelVersion ==
    { <<FAN_ENABLE_AUDIT, 4, 15>>, <<FAN_REPORT_FID, 5, 1>>,
      <<FAN_REPORT_DIR_FID, 5, 9>>, <<FAN_REPORT_NAME, 5, 9>>,
      <<FAN_REPORT_DFID_NAME, 5, 9>> }

\* check(n, k, w, x) for a flag that is set
checkVersion(maj, min, w, x) == maj > w \/ (maj = w /\ min >= x)

\* checkFlagsKernelSupport(flags, maj, min): the loop ranges over a map, in
\* an order the runtime picks, and returns at the first flag that is set;
\* these are the values it can return
checkFlagsKernelSupport(flags, maj, min) ==
    LET set == {e \in flagPerKernelVersion : isSet(flags, e[1])}
    IN  IF set = {} THEN {TRUE}
        ELSE {checkVersion(maj, min, e[2], e[3]) : e \in set}

\* what a call of newListener leaves behind: the listener or the error it
\* returns, the panic it raises, and what it has opened
Built(listener, err, flt, initCalled, fdOpen, mountpointOpen) ==
    [listener |-> listener, err |-> err, fault |-> flt, initCalled |-> initCalled,
     fdOpen |-> fdOpen, mountpointOpen |-> mountpointOpen]

\* mutant: the flags are handed to fanotify_init unvalidated
newListenerNoValidation(flags, kv, supported, initErr, openErr) ==
    IF kv.fault # "none" THEN Built(FALSE, "nil", kv.fault, FALSE, FALSE, FALSE)
    ELSE IF kv.err # "nil" THEN Built(FALSE, kv.err, "none", FALSE, FALSE, FALSE)
    ELSE IF ~supported
        THEN Built(FALSE, "nil", "flags not supported", FALSE, FALSE, FALSE)
    ELSE IF initErr THEN Built(FALSE, "errno", "none", TRUE, FALSE, FALSE)
    ELSE IF openErr THEN Built(FALSE, "open", "none", TRUE, TRUE, FALSE)
    ELSE Built(TRUE, "nil", "none", TRUE, TRUE, TRUE)

\* newListener, given what kernelVersion returned, what
\* checkFlagsKernelSupport returned, and whether unix.FanotifyInit and
\* os.Open fail
newListener(flags, kv, supported, initErr, openErr) ==
    IF kv.fault # "none" THEN Built(FALSE, "nil", kv.fault, FALSE, FALSE, FALSE)
    ELSE IF kv.err # "nil" THEN Built(FALSE, kv.err, "none", FALSE, FALSE, FALSE)
    ELSE IF flagsValid(flags) # "nil"
        THEN Built(FALSE, "ErrInvalidFlagCombination", "none", FALSE, FALSE, FALSE)
    ELSE IF ~supported
        THEN Built(FALSE, "nil", "flags not supported", FALSE, FALSE, FALSE)
    ELSE IF initErr THEN Built(FALSE, "errno", "none", TRUE, FALSE, FALSE)
    ELSE IF openErr THEN Built(FALSE, "open", "none", TRUE, TRUE, FALSE)
    ELSE Built(TRUE, "nil", "none", TRUE, TRUE, TRUE)

\* a call of newListener
ApplyNewListener(flags, unameErr, version, initErr, openErr) ==
    /\ fn = "none"
    /\ fn' = "newListener"
    /\ args' = [flags |-> flags, unameErr |-> unameErr, version |-> version,
                initErr |-> initErr, openErr |-> openErr]
    /\ LET kv == kernelVersion(unameErr, version)
       IN  \E supported \in checkFlagsKernelSupport(flags, kv.maj, kv.min) :
               out' = newListener(flags, kv, supported, initErr, openErr)
    /\ UNCHANGED <<regVars, lsVars, fault>>

(***************************************************************************)
(* Allow and Deny: the response to a permission event.                     *)
(***************************************************************************)
FAN_ALLOW == 1

FAN_DENY == 2

\* binary.Write of an int32, little-endian, two's complement
PutInt32(x) ==
    IF x >= 0
        THEN Enc32(x)
        ELSE LET y == (x + 2147483647) + 1
             IN  <<y % 256, (y \div 256) % 256, (y \div 65536) % 256,
                   (y \div 16777216) + 128>>

\* binary.Write of a unix.FanotifyResponse{Fd int32; Response uint32}
FanotifyResponse(fd, response) == PutInt32(fd) \o Enc32(response)

\* the bytes Allow hands to unix.Write
AllowResponse(e) == FanotifyResponse(e.Fd, FAN_ALLOW)

\* mutant: Deny sends the verdict of Allow
DenyResponseAllows(e) == FanotifyResponse(e.Fd, FAN_ALLOW)

\* the bytes Deny hands to unix.Write
DenyResponse(e) == FanotifyResponse(e.Fd, FAN_DENY)

\* the descriptors of the Events a caller answers
ResponseFds == {FAN_NOFD, 0, 7, 300, 70000}

ResponseEvents == {[NoEvent EXCEPT !.Fd = f] : f \in ResponseFds}

\* what a call of Allow or Deny does: the writes it issues, each with the
\* descriptor written to and its bytes, and the panic of l.fd on a nil
\* listener; the result of unix.Write is dropped
Respond(recv, data) ==
    IF recv = "nil"
        THEN [fault |-> "nil pointer dereference", writes |-> <<>>]
        ELSE [fault |-> "none", writes |-> <<[fd |-> "l.fd", data |-> data]>>]

Allow(recv, e) ==
    /\ fn = "none"
    /\ fn' = "Allow"
    /\ args' = <<recv, e>>
    /\ out' = Respond(recv, AllowResponse(e))
    /\ UNCHANGED <<regVars, lsVars, fault>>

Deny(recv, e) ==
    /\ fn = "none"
    /\ fn' = "Deny"
    /\ args' = <<recv, e>>
    /\ out' = Respond(recv, DenyResponse(e))
    /\ UNCHANGED <<regVars, lsVars, fault>>

(***************************************************************************)
(* The feature tier of a listener, as newListener(mountpointPath, flags,   *)
(* eventFlags, maxEvents) of fanotify_event_types.go records it, and what  *)
(* readEvents does with the info type of a record on such a listener.      *)
(***************************************************************************)
FanotifyInitFlagNone == 0

FanotifyInitFlagFid == 1

FanotifyInitFlagDirFid == 2

FanotifyInitFlagReportName == 3

FanotifyInitFlagDirFidName == 4

\* fidType: each test that holds overwrites the result of the ones before
flagFidType(flags) ==
    IF isSet(flags, FAN_REPORT_DFID_NAME) THEN FanotifyInitFlagDirFidName
    ELSE IF isSet(flags, FAN_REPORT_NAME) THEN FanotifyInitFlagReportName
    ELSE IF isSet(flags, FAN_REPORT_DIR_FID) THEN FanotifyInitFlagDirFid
    ELSE IF isSet(flags, FAN_REPORT_FID) THEN FanotifyInitFlagFid
    ELSE FanotifyInitFlagNone

\* the flags newListener accepts
ValidInitFlags == {flags \in InitFlags : flagsValid(flags) = "nil"}

\* the info types of a record: the three of unix and two others
InfoTypes == 0..4

\* readEvents meets a record of the info type on a listener made with the
\* flags
ApplyInfoTypeSwitch(flags, infoType) ==
    /\ fn = "none"
    /\ fn' = "infoTypeSwitch"
    /\ args' = [flags |-> flags, infoType |-> infoType]
    /\ out' = [flagFidType |-> flagFidType(flags),
               branch |-> infoTypeSwitch(infoType)]
    /\ UNCHANGED <<regVars, lsVars, fault>>

(***************************************************************************)
(* checkFlagsKernelSupport applied to flags and a kernel version.          *)
(***************************************************************************)
\* the (maj, min) pairs kernelVersion hands over
KernelVersions == {<<4, 14>>, <<4, 15>>, <<5, 0>>, <<5, 1>>, <<5, 9>>, <<6, 1>>}

ApplyCheckFlagsKernelSupport(flags, maj, min) ==
    /\ fn = "none"
    /\ fn' = "checkFlagsKernelSupport"
    /\ args' = [flags |-> flags, maj |-> maj, min |-> min]
    /\ \E v \in checkFlagsKernelSupport(flags, maj, min) : out' = [ret |-> v]
    /\ UNCHANGED <<regVars, lsVars, fault>>

(***************************************************************************)
(* The registry called from several threads at once.  The code takes no    *)
(* lock, so a call is a sequence of steps that interleave with the steps   *)
(* of the other callers: the lookup in l.watches, the update of l.watches, *)
(* the kernel call.  l.watches is a Go map: a write to it while another    *)
(* thread is in its lookup or update is a data race, which the runtime may *)
(* end with a fatal error or let pass.                                     *)
(***************************************************************************)
ThreadOps == {"AddPath", "RemovePath", "RemoveAll"}

\* the mask the concurrent callers pass
ThreadMask == {"FAN_MODIFY"}

\* another thread is between its lookup and the end of its update
Racing(t) == \E u \in Threads \ {t} : thr[u].pc \in {"lookup", "update"}

\* the call is entered
ThreadCall(t, op, path) ==
    /\ fault = "none"
    /\ thr[t].pc = "idle"
    /\ thr[t].calls < MaxThreadCalls
    /\ thr' = [thr EXCEPT ![t] =
                  [pc |-> IF op = "RemoveAll" THEN "flush" ELSE "lookup",
                   op |-> op, path |-> IF op = "RemoveAll" THEN "" ELSE path,
                   found |-> FALSE, ret |-> "nil", calls |-> thr[t].calls + 1]]
    /\ UNCHANGED <<entireMount, watches, markCalls, flushCalls, kernelMarks, call,
                   ret, nOps, lsVars, fnVars, fault>>

\* _, found := l.watches[path]
ThreadLookup(t) ==
    /\ fault = "none"
    /\ thr[t].pc = "lookup"
    /\ thr' = [thr EXCEPT ![t].found = thr[t].path \in watches, ![t].pc = "update"]
    /\ UNCHANGED <<entireMount, watches, markCalls, flushCalls, kernelMarks, call,
                   ret, nOps, lsVars, fnVars, fault>>

\* the found/remove branches: delete(l.watches, path) or l.watches[path] =
\* true, or nothing and the return of nil
ThreadUpdate(t) ==
    LET remove == thr[t].op = "RemovePath"
    IN  /\ fault = "none"
        /\ thr[t].pc = "update"
        /\ IF markSkip(thr[t].found, remove)
              THEN /\ thr' = [thr EXCEPT ![t].pc = "idle", ![t].ret = "nil"]
                   /\ UNCHANGED <<watches, fault>>
              ELSE \/ /\ watches' = IF remove THEN watches \ {thr[t].path}
                                              ELSE watches \cup {thr[t].path}
                      /\ thr' = [thr EXCEPT ![t].pc = "mark"]
                      /\ UNCHANGED fault
                   \/ /\ Racing(t)
                      /\ fault' = "concurrent map writes"
                      /\ UNCHANGED <<watches, thr>>
        /\ UNCHANGED <<entireMount, markCalls, flushCalls, kernelMarks, call, ret,
                       nOps, lsVars, fnVars>>

\* unix.FanotifyMark(l.fd, flags, mask, -1, path) and the return
ThreadMark(t, kerr) ==
    /\ fault = "none"
    /\ thr[t].pc = "mark"
    /\ markCalls' = markCalls + 1
    /\ kernelMarks' = kernelMark(kernelMarks, thr[t].path, thr[t].op = "RemovePath",
                                 ThreadMask, kerr)
    /\ thr' = [thr EXCEPT ![t].pc = "idle", ![t].ret = kerr]
    /\ UNCHANGED <<entireMount, watches, flushCalls, call, ret, nOps, lsVars,
                   fnVars, fault>>

\* RemoveAll: unix.FanotifyMark(l.fd, unix.FAN_MARK_FLUSH, 0, -1, "")
ThreadFlush(t, kerr) ==
    /\ fault = "none"
    /\ thr[t].pc = "flush"
    /\ flushCalls' = flushCalls + 1
    /\ kernelMarks' = kernelFlush(kernelMarks, kerr)
    /\ thr' = [thr EXCEPT ![t].pc = IF kerr = "nil" THEN "reset" ELSE "idle",
                          ![t].ret = kerr]
    /\ UNCHANGED <<entireMount, watches, markCalls, call, ret, nOps, lsVars,
                   fnVars, fault>>

\* RemoveAll: l.watches = make(map[string]bool)
ThreadReset(t) ==
    /\ fault = "none"
    /\ thr[t].pc = "reset"
    /\ watches' = {}
    /\ thr' = [thr EXCEPT ![t].pc = "idle"]
    /\ UNCHANGED <<entireMount, markCalls, flushCalls, kernelMarks, call, ret,
                   nOps, lsVars, fnVars, fault>>

ThreadCalls == \E t \in Threads, op \in ThreadOps, path \in Paths : ThreadCall(t, op, path)

ThreadLookups == \E t \in Threads : ThreadLookup(t)

ThreadUpdates == \E t \in Threads : ThreadUpdate(t)

ThreadMarks == \E t \in Threads, kerr \in KernelResults : ThreadMark(t, kerr)

ThreadFlushes == \E t \in Threads, kerr \in KernelResults : ThreadFlush(t, kerr)

ThreadResets == \E t \in Threads : ThreadReset(t)

ConcNext ==
    \/ ThreadCalls
    \/ ThreadLookups
    \/ ThreadUpdates
    \/ ThreadMarks
    \/ ThreadFlushes
    \/ ThreadResets

ConcSpec == Init /\ [][ConcNext]_vars

(***************************************************************************)
(* AddFilesystem: the mark of a whole filesystem.                          *)
(***************************************************************************)
\* the kernel versions a listener may have recorded at construction
FilesystemVersions == {<<3, 10>>, <<4, 14>>, <<4, 19>>, <<4, 20>>, <<5, 9>>}

\* l.kernelMajorVersion < 4 && l.kernelMinorVersion < 20
addFilesystemUnsupported(maj, min) == maj < 4 /\ min < 20

\* what a call of AddFilesystem leaves behind on a listener that tracks w:
\* the error it returns, the panic it raises, the number of calls of
\* unix.FanotifyMark, the flags of that call and l.watches afterwards
Marked(err, flt, calls, flags, w) ==
    [ret |-> err, fault |-> flt, markCalls |-> calls, flags |-> flags,
     watches |-> w]

\* AddFilesystem(path, events) on the listener recv with kernel version
\* (maj, min) and tracked set w; the version fields are read before the
\* nil check of fanotifyMark
AddFilesystem(recv, maj, min, w, path, events, kerr) ==
    /\ fn = "none"
    /\ fn' = "AddFilesystem"
    /\ args' = [recv |-> recv, maj |-> maj, min |-> min, watches |-> w,
                path |-> path, events |-> events, kerr |-> kerr]
    /\ out' =
         IF recv = "nil"
             THEN Marked("nil", "nil pointer dereference", 0, {}, w)
         ELSE IF addFilesystemUnsupported(maj, min)
             THEN Marked("ErrUnsupportedOnKernelVersion", "none", 0, {}, w)
         ELSE IF markSkip(path \in w, FALSE)
             THEN Marked("nil", "none", 0, {}, markWatches(w, path, FALSE))
         ELSE Marked(kerr, "none", 1, {"FAN_MARK_ADD", "FAN_MARK_FILESYSTEM"},
                     markWatches(w, path, FALSE))
    /\ UNCHANGED <<regVars, lsVars, fault>>

(***************************************************************************)
(* The registry specification: any sequence of registry calls.             *)
(***************************************************************************)
RegistryNext ==
    \E recv \in Receivers, kerr \in KernelResults :
        \/ \E p \in Paths, m \in Masks :
            \/ AddPath(recv, p, m, kerr)
            \/ RemovePath(recv, p, m, kerr)
            \/ AddDir(recv, p, m, kerr)
            \/ RemoveDir(recv, p, m, kerr)
            \/ AddLink(recv, p, m, kerr)
            \/ RemoveLink(recv, p, m, kerr)
            \/ AddWatch(recv, p, m, kerr)
            \/ DeleteWatch(recv, p, m, kerr)
        \/ \E m \in MountMasks :
            \/ WatchMount(recv, m, kerr)
            \/ UnwatchMount(recv, m, kerr)
        \/ RemoveAll(recv, kerr)
        \/ ClearWatch(recv, kerr)

RegistrySpec == Init /\ [][RegistryNext]_vars

(***************************************************************************)
(* Claims about the registry.  A step of RegistrySpec is one call: call'   *)
(* names the operation and its arguments, the unprimed variables are the   *)
(* registry before the call and the primed ones the registry after it.     *)
(***************************************************************************)
AddOps == {"AddPath", "AddDir", "AddLink", "AddWatch"}

RemoveOps == {"RemovePath", "RemoveDir", "RemoveLink", "DeleteWatch"}

FlushOps == {"RemoveAll", "ClearWatch"}

MountOps == {"WatchMount", "UnwatchMount"}

Targets == Paths \cup {MountPointName}

\* the step is a call of one of ops on a constructed listener
CallOf(ops) ==
    /\ nOps' = nOps + 1
    /\ call'.op \in ops
    /\ call'.recv = "l"

\* the step reaches fanotifyMark: AddWatch and DeleteWatch do so on a
\* per-path listener only
ReachesMark ==
    call'.op \in {"AddWatch", "DeleteWatch"} => ~entireMount

C2_RemoveOnlyIfTracked ==
    [][ (CallOf(RemoveOps) /\ ReachesMark) =>
          IF call'.path \in watches
              THEN /\ markCalls' = markCalls + 1
                   /\ watches' = watches \ {call'.path}
              ELSE /\ markCalls' = markCalls
                   /\ watches' = watches
                   /\ ret' = "nil" ]_vars

\* an Add, the Remove that untracks the path, and a Remove of the path that
\* is no longer tracked
C2_Witness ==
    /\ call.op \in RemoveOps
    /\ call.recv = "l"
    /\ ~call.found
    /\ ret = "nil"
    /\ nOps = 3
    /\ markCalls = 2
    /\ watches = {}

\* C3 as stated: every Flush issues the kernel flush call and leaves the
\* tracked set empty, so that an Add of any target issues a kernel mark call.
C3_FlushAlwaysClears ==
    [][ CallOf(FlushOps) =>
          /\ flushCalls' = flushCalls + 1
          /\ watches' = {}
          /\ \A p \in Targets : ~markSkip(p \in watches', FALSE) ]_vars

\* C3 as amended: every Flush issues the kernel flush call; when that call
\* succeeds the tracked set is empty afterwards, so that an Add of any
\* target issues a kernel mark call; when it fails the error is returned and
\* the tracked set is left as it was.
C3_FlushClearsOnSuccess ==
    [][ CallOf(FlushOps) =>
          /\ flushCalls' = flushCalls + 1
          /\ markCalls' = markCalls
          /\ IF ret' = "nil"
                THEN /\ watches' = {}
                     /\ \A p \in Targets : ~markSkip(p \in watches', FALSE)
                ELSE watches' = watches ]_vars

\* a successful Flush of a registry that tracked a target
C3_Witness ==
    /\ call.op \in FlushOps
    /\ call.recv = "l"
    /\ ret = "nil"
    /\ nOps = 2
    /\ markCalls = 1
    /\ flushCalls = 1
    /\ watches = {}

C5_MountMaskRejected ==
    [][ (CallOf({"WatchMount"}) /\ call'.mask \cap DirModEvents # {}) =>
          /\ ret' # "nil"
          /\ entireMount => ret' = "ErrInvalidFlagCombination"
          /\ UNCHANGED <<markCalls, flushCalls, watches>> ]_vars

\* a whole-mount listener has rejected a mask with a directory-creation event
C5_Witness ==
    /\ entireMount
    /\ call.op = "WatchMount"
    /\ call.recv = "l"
    /\ "FAN_CREATE" \in call.mask
    /\ ret = "ErrInvalidFlagCombination"
    /\ markCalls = 0
    /\ watches = {}

(***************************************************************************)
(* Start, Stop and readEvents.                                             *)
(***************************************************************************)
LoopRunning == loopPc \notin {"idle", "returned"}

\* C6: Stop is safe to repeat: a Stop on a nil listener and a second Stop on
\* a stopped listener return without a fault and close nothing a second
\* time, so the output queue is closed exactly once.  The second close of
\* the queue is the fault "close of closed channel".
C6_StopSafeToRepeat == fault # "close of closed channel"

\* C7: whenever Stop is called while the Start loop is running, Start
\* eventually returns, wherever the loop was at the call.  A run that ends
\* in a panic is not held against the loop here: what is left is a loop
\* that neither returns nor dies.
C7_StopUnblocksLoop ==
    []((stopPc = "write" /\ LoopRunning) => <>(loopPc = "returned" \/ fault # "none"))

\* C8: a Stop from another thread while the loop decodes a buffer lets the
\* loop finish the buffer without a fault, and no Event is pushed onto the
\* output queue after Stop has closed it.  A push onto the closed queue is
\* the fault "send on closed channel".
C8_NoPushAfterClose == fault # "send on closed channel"

\* C9: a fatal fault in the running loop (a format-version mismatch, a fatal
\* wait error) makes the loop stop and close the output queue; it never
\* panics the process.
C9_FatalFaultEndsStream ==
    /\ fault # "metadata version"
    /\ loopExit = "poll error" => eventsClosed

\* C10 as stated: when decoding meets a record of another format version, no
\* Event of that buffer has been pushed, wherever the record sits.
C10_NoEventFromMismatchingBuffer ==
    fault = "metadata version" => pushedOffs = {}

\* the loop stands at a well-formed record of another format version
AtMismatch ==
    /\ loopPc = "decode"
    /\ fanotifyEventOK(buf, meta, n)
    /\ Vers(buf, meta) # FANOTIFY_METADATA_VERSION

\* C10, amended: decoding ends in the fatal fault at the first record of
\* another format version: every Event pushed from the buffer comes from a
\* record of the compiled-in version that lies before that record, and the
\* loop never gets past it.
C10_MismatchStopsDecoding ==
    /\ [](\A o \in pushedOffs : Vers(buf, o) = FANOTIFY_METADATA_VERSION)
    /\ [](fault = "metadata version" =>
            /\ Vers(buf, meta) # FANOTIFY_METADATA_VERSION
            /\ \A o \in pushedOffs : o < meta)
    /\ [][AtMismatch =>
            \/ fault' = "metadata version" /\ Events' = Events
            \/ /\ loopPc' = loopPc
               /\ UNCHANGED <<buf, n, i, meta, pushedOffs>>]_vars

\* the fault at a mismatching record that follows a decoded one
C10_Witness ==
    /\ fault = "metadata version"
    /\ pushedOffs # {}
    /\ meta > 0

\* the step is a send on l.Events
Pushes == Len(Events') > Len(Events)

\* C11: a record is decoded only if it is well-formed; the first malformed
\* record ends the scan of the buffer without a fault and sends the loop to
\* its next read; and the well-formed records before it yield one Event
\* each, so that k records yield exactly k Events.
C11_WellFormedRecordsOnly ==
    /\ [](loopPc = "push" => fanotifyEventOK(buf, meta, n))
    /\ [][(loopPc = "decode" /\ ~fanotifyEventOK(buf, meta, n) /\ loopPc' # loopPc)
             => (loopPc' = "read" /\ fault' = "none")]_vars
    /\ [][Pushes => meta \notin pushedOffs]_vars

\* the name of the record at offset o, said without the loop that reads it:
\* nm holds the bytes that follow the file handle, none of them NUL, and
\* ends at the first NUL or after NAME_MAX bytes
IsNameAt(nm, b, o) ==
    /\ Len(nm) <= NAME_MAX
    /\ \A k \in 1..Len(nm) : nm[k] # 0 /\ nm[k] = U8(b, NameOff(b, o) + k - 1)
    /\ Len(nm) = NAME_MAX \/ U8(b, NameOff(b, o) + Len(nm)) = 0

\* the record at offset o carries a file identifier with a name
IsNameRecord(b, o) ==
    /\ Fd(b, o) = FAN_NOFD
    /\ InfoType(b, o + Metadata_len(b, o)) = FAN_EVENT_INFO_TYPE_DFID_NAME

\* C12: the Event of a file-identifier record of the name-reporting tier
\* has as FileName exactly the bytes between the end of the file handle and
\* the first NUL, at most NAME_MAX of them: an empty FileName when the byte
\* after the handle is NUL; reading the name raises no fault.
C12_FileNameUpToNul ==
    /\ (loopPc = "push" /\ IsNameRecord(buf, meta)) =>
            IsNameAt(ev.FileName, buf, meta)
    /\ fault # "index out of range"

\* the Event of a name record whose name is empty is about to be sent
C12_Witness ==
    /\ loopPc = "push"
    /\ IsNameRecord(buf, meta)
    /\ U8(buf, NameOff(buf, meta)) = 0
    /\ ev.FileName = <<>>

\* C13: the output queue is an ordered, lossless stream: every send appends
\* the Event of a record that lies after all records of the buffer already
\* sent (in order, each once), a send happens only when the queue has room,
\* and the consumer takes the oldest Event.
C13_OrderedLosslessStream ==
    /\ [][Pushes => /\ \A o \in pushedOffs : o < meta
                    /\ Len(Events) < QueueCap
                    /\ Events' = Append(Events, ev)]_vars
    /\ [][Len(Events') < Len(Events) => Events' = Tail(Events)]_vars

\* C14: every Event about to be sent carries the event mask and the process
\* id of the header of its record, in both branches.
C14_EventCarriesMaskAndPid ==
    loopPc = "push" =>
        /\ ev.Mask = Mask(buf, meta)
        /\ ev.Pid = Pid(buf, meta)

\* C15: descriptor ownership: a descriptor is handed to the consumer in one
\* Event only, so no two Events that are queued or about to be sent hold the
\* same descriptor.
C15_DescriptorInOneEvent ==
    /\ \A a, b \in DOMAIN Events : a # b => Events[a].Fd # Events[b].Fd
    /\ loopPc = "push" => \A a \in DOMAIN Events : Events[a].Fd # ev.Fd

\* C16: AddWatch on a path that is tracked and marked in the kernel, with a
\* mask that may hold event types the mark lacks, returns nil with the mark
\* of the path holding every event type of the new mask.
C16_AddWatchMergesMask ==
    [][ (/\ CallOf({"AddWatch"})
         /\ ReachesMark
         /\ call'.path \in watches
         /\ kernelMarks[call'.path] # {}
         /\ ret' = "nil")
        => call'.mask \subseteq kernelMarks'[call'.path] ]_vars

(***************************************************************************)
(* The functions without state: each step applies one of them to inputs    *)
(* drawn from its domain.                                                  *)
(***************************************************************************)
\* Or and Has are applied
OrHasStep ==
    /\ fn = "none"
    /\ \E m1 \in EventTypes, m2 \in EventTypes, m3 \in EventTypes :
           ApplyOrHas(m1, m2, m3)

\* newListener is called
NewListenerStep ==
    /\ fn = "none"
    /\ \E flags \in InitFlags, unameErr \in BOOLEAN, version \in Releases,
           initErr \in BOOLEAN, openErr \in BOOLEAN :
             ApplyNewListener(flags, unameErr, version, initErr, openErr)

\* Allow is called
AllowStep ==
    /\ fn = "none"
    /\ \E recv \in Receivers, e \in ResponseEvents : Allow(recv, e)

\* Deny is called
DenyStep ==
    /\ fn = "none"
    /\ \E recv \in Receivers, e \in ResponseEvents : Deny(recv, e)

\* readEvents looks at the info type of a record
InfoTypeStep ==
    /\ fn = "none"
    /\ \E flags \in ValidInitFlags, infoType \in InfoTypes :
           ApplyInfoTypeSwitch(flags, infoType)

\* checkFlagsKernelSupport is called
CheckFlagsStep ==
    /\ fn = "none"
    /\ \E flags \in InitFlags, kv \in KernelVersions :
           ApplyCheckFlagsKernelSupport(flags, kv[1], kv[2])

\* AddFilesystem is called
AddFilesystemStep ==
    /\ fn = "none"
    /\ \E recv \in Receivers, kv \in FilesystemVersions, w \in SUBSET Paths,
           p \in Paths, m \in Masks, kerr \in KernelResults :
             AddFilesystem(recv, kv[1], kv[2], w, p, m, kerr)

FnNext ==
    \/ OrHasStep
    \/ NewListenerStep
    \/ AllowStep
    \/ DenyStep
    \/ InfoTypeStep
    \/ CheckFlagsStep
    \/ AddFilesystemStep

FnSpec == Init /\ [][FnNext]_vars

\* the bits of an event type, numbered from 0
BitsOf(m) == {k \in 0..(EventTypeBits - 1) : (m \div (2 ^ k)) % 2 = 1}

\* C17: for all event types m1 and m2, m1.Or(m2).Has(m1) and
\* m1.Or(m2).Has(m2) are true, and Or is the union of the bits:
\* commutative, associative and idempotent.
C17_OrHasAlgebra ==
    fn = "Or/Has" =>
        /\ out.has1
        /\ out.has2
        /\ BitsOf(out.or12) = BitsOf(args[1]) \cup BitsOf(args[2])
        /\ out.or12 = out.or21
        /\ out.or12_3 = out.or1_23
        /\ out.or11 = args[1]

\* Or of two event types that share no bit and are not empty
C17_Witness ==
    /\ fn = "Or/Has"
    /\ args[1] = 1
    /\ args[2] = 6
    /\ out.or12 = 7
    /\ out.has1

\* the flags the claims about construction call invalid: FAN_REPORT_FID
\* with FAN_CLASS_CONTENT or with FAN_CLASS_PRE_CONTENT, FAN_REPORT_NAME
\* without FAN_REPORT_DIR_FID; told from the bits of the value
InvalidInitFlags(flags) ==
    LET has(k) == (flags \div k) % 2 = 1
    IN  \/ has(FAN_REPORT_FID) /\ has(FAN_CLASS_CONTENT)
        \/ has(FAN_REPORT_FID) /\ has(FAN_CLASS_PRE_CONTENT)
        \/ has(FAN_REPORT_NAME) /\ ~has(FAN_REPORT_DIR_FID)

\* nothing was opened by the call
NothingOpened == ~out.initCalled /\ ~out.fdOpen /\ ~out.mountpointOpen

\* C18 as stated: for any invalid flags newListener returns a nil listener
\* and ErrInvalidFlagCombination, having opened nothing.  Calls that end in
\* a panic are left aside here.
C18_InvalidFlagsRejected ==
    (fn = "newListener" /\ InvalidInitFlags(args.flags) /\ out.fault = "none") =>
        /\ ~out.listener
        /\ out.err = "ErrInvalidFlagCombination"
        /\ NothingOpened

\* kernelVersion returned the version of the kernel
VersionKnown ==
    LET kv == kernelVersion(args.unameErr, args.version)
    IN  kv.err = "nil" /\ kv.fault = "none"

\* C18, amended: newListener asks for the kernel version first.  For invalid
\* flags it never returns a listener and opens nothing; once the kernel
\* version is known the error is ErrInvalidFlagCombination.  The flags
\* FAN_CLASS_NOTIF|FAN_REPORT_FID pass the validation: they are never
\* answered with ErrInvalidFlagCombination.
C18_InvalidFlagsRejectedOnceVersionKnown ==
    fn = "newListener" =>
        /\ InvalidInitFlags(args.flags) => ~out.listener /\ NothingOpened
        /\ (InvalidInitFlags(args.flags) /\ VersionKnown) =>
               (out.err = "ErrInvalidFlagCombination" /\ out.fault = "none")
        /\ ~InvalidInitFlags(args.flags) => out.err # "ErrInvalidFlagCombination"
        /\ (args.flags = FAN_CLASS_NOTIF + FAN_REPORT_FID) =>
               out.err # "ErrInvalidFlagCombination"

\* FAN_CLASS_CONTENT|FAN_REPORT_FID on a kernel whose version is known
C18_Witness ==
    /\ fn = "newListener"
    /\ args.flags = FAN_CLASS_CONTENT + FAN_REPORT_FID
    /\ VersionKnown
    /\ out.err = "ErrInvalidFlagCombination"
    /\ ~out.listener

\* the kernel is older than a flag of the call needs
Unsupported(flags, maj, min) ==
    \E e \in flagPerKernelVersion :
        /\ (flags \div e[1]) % 2 = 1
        /\ ~(maj > e[2] \/ (maj = e[2] /\ min >= e[3]))

\* C19: construction with a flag the kernel version does not support
\* returns an error to the caller, raises no panic and creates no
\* notification group.
C19_UnsupportedFlagIsAnError ==
    LET kv == kernelVersion(args.unameErr, args.version)
    IN  (fn = "newListener" /\ VersionKnown /\ ~InvalidInitFlags(args.flags)
            /\ Unsupported(args.flags, kv.maj, kv.min)) =>
            /\ out.fault = "none"
            /\ out.err # "nil"
            /\ ~out.listener
            /\ ~out.initCalled

\* C20: when the kernel version cannot be had (uname fails, or the release
\* string holds no parsable major, minor and patch number), construction
\* returns an error: no listener, no panic.
C20_VersionFailureIsAnError ==
    (fn = "newListener" /\ (args.unameErr \/ Len(args.version) < 3
                             \/ \E k \in 1..3 : k <= Len(args.version)
                                                 /\ args.version[k] = TooBig)) =>
        /\ out.fault = "none"
        /\ out.err # "nil"
        /\ ~out.listener

\* C21: on a listener, Allow(e) and Deny(e) each issue exactly one write, to
\* the notification-group descriptor, of one response record of eight bytes
\* whose descriptor field is e.Fd and whose verdict is FAN_ALLOW for Allow
\* and FAN_DENY for Deny; the call reads nothing from the group and leaves
\* the tracked set and the output queue as they were.
C21_ResponseWrittenOnce ==
    /\ [](fn \in {"Allow", "Deny"} /\ args[1] = "l" =>
            /\ out.fault = "none"
            /\ Len(out.writes) = 1
            /\ out.writes[1].fd = "l.fd"
            /\ Len(out.writes[1].data) = 8
            /\ LE32s(out.writes[1].data, 0) = args[2].Fd
            /\ LE32(out.writes[1].data, 4) =
                   (IF fn = "Allow" THEN FAN_ALLOW ELSE FAN_DENY))
    /\ [][fn' \in {"Allow", "Deny"} /\ fn = "none" =>
            UNCHANGED <<watches, kernelMarks, Events, eventsClosed, pending, reads>>]_vars

\* Deny has answered an Event whose descriptor takes more than one byte
C21_Witness ==
    /\ fn = "Deny"
    /\ args[1] = "l"
    /\ args[2].Fd = 70000
    /\ Len(out.writes) = 1
    /\ LE32(out.writes[1].data, 4) = FAN_DENY

\* C22: Stopped is terminal.  Once Stop has completed (the queue is closed)
\* with Start not yet invoked, a Start invoked afterwards returns without
\* reading from the notification group: the loop never holds a buffer read
\* from the group, and so pushes no Event.
C22_StoppedIsTerminal ==
    []((eventsClosed /\ stopPc = "none" /\ loopPc = "idle")
          => [](loopPc \notin {"decode", "push"}))

\* a record is stepped over without an Event
Skips == loopPc = "decode" /\ loopPc' = "decode" /\ n' # n

\* C23: after every record of a buffer, emitted as an Event or skipped, in
\* the branch of the inline descriptor, of the file identifier and of the
\* file identifier with a name, the cursor stands at the start of the record
\* plus the record's declared length, and the count of remaining bytes has
\* gone down by that length.
C23_CursorAdvancesByDeclaredLength ==
    [][(Pushes \/ Skips) =>
          /\ i' = meta + Event_len(buf, meta)
          /\ meta' = meta + Event_len(buf, meta)
          /\ n' = n - Event_len(buf, meta)]_vars

\* C24: the loop issues a read of the notification group only on return
\* from a readiness wait that reported the group readable: one read for one
\* wait, never a second read without a wait in between.
C24_OneReadPerReadiness ==
    [][(loopPc # "read" /\ loopPc' = "read") => loopPc = "polling"]_vars

\* unix.Poll returns to Start
Wakes == loopPc = "polling" /\ loopPc' # "polling"

\* C25: when unix.Poll returns with the cancellation descriptor readable,
\* Start returns without a read of the notification group, whether or not
\* the group is reported readable in the same wakeup, and it stays returned.
C25_CancellationWinsOverGroup ==
    /\ [][(Wakes /\ wait'.err = "nil" /\ wait'.stop = "POLLIN") =>
             /\ loopPc' = "returned"
             /\ UNCHANGED <<decodeVars, resVars, kernelVars>>]_vars
    /\ [][loopPc = "returned" =>
             /\ loopPc' = "returned"
             /\ UNCHANGED decodeVars]_vars

\* Start has returned from a wakeup that reported both descriptors readable
C25_Witness ==
    /\ loopPc = "returned"
    /\ loopExit = "stopper"
    /\ wait.stop = "POLLIN"
    /\ wait.fan = "POLLIN"
    /\ pending # <<>>

\* C26: a wakeup of unix.Poll with nothing ready and one interrupted by a
\* signal are followed by the next unix.Poll with no read, no Event and no
\* other change; a wakeup with any other error makes Start return, and a
\* Start that has returned never waits again.
C26_WaitRetriedOnlyWhenHarmless ==
    /\ [][Wakes =>
             /\ (wait'.n = 0 \/ wait'.err = "EINTR") =>
                    /\ loopPc' = "poll"
                    /\ UNCHANGED <<loopExit, stopFd, decodeVars, resVars,
                                   kernelVars, regVars, fault>>
             /\ (wait'.err \notin {"nil", "EINTR"}) =>
                    /\ loopPc' = "returned"
                    /\ UNCHANGED <<decodeVars, resVars, kernelVars, regVars, fault>>]_vars
    /\ [][(loopPc = "returned" /\ wait.err \notin {"nil", "EINTR"}) =>
             loopPc' = "returned"]_vars

\* Start has returned on an error of unix.Poll after a wakeup it retried
C26_Witness ==
    /\ loopPc = "returned"
    /\ loopExit = "poll error"
    /\ wait.err = "ENOMEM"
    /\ retries = 1

\* C27: a read of the notification group that fails (the call is left and
\* no buffer has been taken from the kernel) with an error other than EINTR
\* stops the loop: Start returns, with no further wait or read.
C27_ReadErrorStopsLoop ==
    [][(loopPc = "read" /\ loopPc' # "read" /\ pending' = pending) =>
          loopPc' = "returned"]_vars

\* a record with a file identifier of a known info type is given up after
\* open-by-handle has failed
OpenFailSkip ==
    /\ Skips
    /\ Fd(buf, meta) = FAN_NOFD
    /\ InfoType(buf, meta + Metadata_len(buf, meta)) \in
           {FAN_EVENT_INFO_TYPE_FID, FAN_EVENT_INFO_TYPE_DFID,
            FAN_EVENT_INFO_TYPE_DFID_NAME}

\* C28: when open-by-handle fails for a record that is followed by another
\* record in the buffer, only that record is lost: no Event is sent for it,
\* no fault is raised, and decoding goes on at the header of the record
\* that follows it.
C28_OpenFailureSkipsOneRecord ==
    [][(OpenFailSkip /\ n - Event_len(buf, meta) >= sizeOfFanotifyEventMetadata) =>
          /\ Events' = Events
          /\ fault' = "none"
          /\ meta' = meta + Event_len(buf, meta)
          /\ n' = n - Event_len(buf, meta)]_vars

\* the record at the cursor has the expected version and, if it carries a
\* file identifier, a handle and a name inside buf
RecordInBounds ==
    /\ fanotifyEventOK(buf, meta, n)
    /\ versOK(buf, meta)
    /\ Fd(buf, meta) = FAN_NOFD =>
          /\ HandleInBuf(buf, i)
          /\ NameInBuf(buf, NameOff(buf, i))

\* C29: decoding a record that lies inside the buffer raises no fault
\* whatever the system calls made for it return: a record whose
\* /proc/self/fd link cannot be resolved is dropped without an Event, in
\* the branch of the inline descriptor and in the branch of the file
\* identifier, and decoding goes on.
C29_UnresolvableLinkDropsRecord ==
    [][(loopPc = "decode" /\ fault = "none" /\ RecordInBounds) =>
          fault' = "none"]_vars

\* the info type of the records a tier stands for, 0 for the tier without
\* file identifiers
TierInfoType(fidType) ==
    IF fidType = FanotifyInitFlagFid THEN FAN_EVENT_INFO_TYPE_FID
    ELSE IF fidType = FanotifyInitFlagDirFid THEN FAN_EVENT_INFO_TYPE_DFID
    ELSE IF fidType = FanotifyInitFlagDirFidName THEN FAN_EVENT_INFO_TYPE_DFID_NAME
    ELSE 0

\* the info types the kernel sends to a group made with the flags: the file
\* id with FAN_REPORT_FID, the directory id with FAN_REPORT_DIR_FID, and the
\* directory id with a name when FAN_REPORT_NAME is set as well
KernelSends(flags, infoType) ==
    \/ infoType = FAN_EVENT_INFO_TYPE_FID /\ isSet(flags, FAN_REPORT_FID)
    \/ infoType = FAN_EVENT_INFO_TYPE_DFID /\ isSet(flags, FAN_REPORT_DIR_FID)
    \/ infoType = FAN_EVENT_INFO_TYPE_DFID_NAME /\ isSet(flags, FAN_REPORT_DFID_NAME)

\* C30: a record with a file identifier is decoded into an Event only if
\* its info type is the info type of the tier negotiated for the listener;
\* a record of any other info type is stepped over.
C30_InfoTypeMatchesTier ==
    (fn = "infoTypeSwitch" /\ KernelSends(args.flags, args.infoType)) =>
        (out.branch # "skip" <=> args.infoType = TierInfoType(out.flagFidType))

\* C31: when the decoder stands at a record whose descriptor is FAN_NOFD and
\* whose declared length is the length of its header (the record a listener
\* of the tier without file identifiers gets for a queue overflow), the
\* bytes it takes for an info header lie inside the record: nothing after
\* the header is read as a file-identifier sub-record.
C31_NoFdRecordHasNoInfo ==
    (/\ loopPc = "decode"
     /\ fault = "none"
     /\ fanotifyEventOK(buf, meta, n)
     /\ versOK(buf, meta)
     /\ Fd(buf, meta) = FAN_NOFD
     /\ Event_len(buf, meta) = Metadata_len(buf, meta))
        => InfoOff(buf, i, meta) + sizeOfFanotifyEventInfoHeader
               <= meta + Event_len(buf, meta)

\* version (w, x) is at most version (maj, min), in lexicographic order
AtMost(w, x, maj, min) == w < maj \/ (w = maj /\ x <= min)

\* C32: checkFlagsKernelSupport(flags, maj, min) returns true if and only
\* if every gated flag that is set in flags has a minimum version at most
\* (maj, min): true without a gated flag, false as soon as one gated flag
\* that is set is not supported.
C32_SupportedIffEveryFlagIs ==
    fn = "checkFlagsKernelSupport" =>
        (out.ret <=>
            \A e \in flagPerKernelVersion :
                isSet(args.flags, e[1]) => AtMost(e[2], e[3], args.maj, args.min))

\* C33: registry calls exclude each other: no two threads are at the same
\* time past the check of the tracked set and before the end of their call;
\* in particular two Adds of one untracked path do not both go on to the
\* kernel mark call.
C33_RegistryCallsExcludeEachOther ==
    \A t, u \in Threads :
        (/\ t # u
         /\ thr[t].pc = "mark"
         /\ thr[u].pc = "mark"
         /\ thr[t].op = "AddPath"
         /\ thr[u].op = "AddPath")
            => thr[t].path # thr[u].path

\* C34: a registry call whose kernel call fails leaves the tracked set as
\* it was before the call: a failed Add does not track the path, a failed
\* Remove keeps it tracked, a failed Flush empties nothing.
C34_FailedMarkKeepsRegistry ==
    [][(CallOf(AddOps \cup RemoveOps \cup FlushOps) /\ ret' = "errno")
          => watches' = watches]_vars

\* the tracked set and the marks of the group agree on every path
Agree == \A p \in Paths : p \in watches <=> kernelMarks[p] # {}

\* every mark of the group is a mask that was passed to an Add
MarksFromAdds == \A p \in Paths : kernelMarks[p] = {} \/ kernelMarks[p] \in Masks

\* C35: registry/kernel agreement is kept by every Add, Remove and Flush
\* whose kernel call succeeds, so it holds after every sequence of such
\* calls: a path is tracked if and only if the group holds a mark for it,
\* whatever mask a Remove is called with and whatever target kind (path,
\* directory, link) the path is added and removed through.
C35_RegistryAgreesWithKernel ==
    [][(/\ Agree
        /\ MarksFromAdds
        /\ CallOf({"AddPath", "AddDir", "AddLink", "RemovePath", "RemoveDir",
                   "RemoveLink", "RemoveAll"})
        /\ ret' = "nil")
          => Agree']_vars

\* the record at the cursor carries a file identifier of a known info type
\* and the fixed part of its info record (header, fsid, handle_bytes,
\* handle_type) lies inside the record
AtFidRecord ==
    /\ loopPc = "decode"
    /\ fault = "none"
    /\ fanotifyEventOK(buf, meta, n)
    /\ versOK(buf, meta)
    /\ Fd(buf, meta) = FAN_NOFD
    /\ HandleOff(buf, i) + sizeOfUint32 + sizeOfUint32 <= meta + Event_len(buf, meta)
    /\ infoTypeSwitch(InfoType(buf, InfoOff(buf, i, meta))) # "skip"

\* the offset after the last byte getFileHandle or getFileHandleWithName
\* reads for the record at the cursor: the end of the handle, or the byte
\* that ends the name
LastRead ==
    IF infoTypeSwitch(InfoType(buf, InfoOff(buf, i, meta))) = "handle with name"
        THEN NameOff(buf, i) + Len(NameFrom(buf, NameOff(buf, i), NAME_MAX)) + 1
        ELSE NameOff(buf, i)

\* C36: decoder bounds.  For a record with a file identifier, whatever its
\* handle_bytes field and its name hold, the bytes read for the handle and
\* the name lie inside the record, that is below record start + declared
\* length, and so below the count of valid bytes of the buffer.
C36_DecoderStaysInsideRecord ==
    AtFidRecord => LastRead <= meta + Event_len(buf, meta)

\* C37: whenever newListener returns an error (invalid flags, kernel-version
\* failure, fanotify_init failure, failure to open the mountpoint), every
\* descriptor it opened during the call is closed again: neither the
\* notification-group descriptor nor the mountpoint is left open.
C37_FailedConstructionLeaksNothing ==
    (fn = "newListener" /\ out.err # "nil")
        => (~out.fdOpen /\ ~out.mountpointOpen)

\* (maj, min) is lexicographically lower than (w, x)
LowerThan(maj, min, w, x) == maj < w \/ (maj = w /\ min < x)

\* C38: AddFilesystem on a constructed listener returns
\* ErrUnsupportedOnKernelVersion, without a kernel mark call and without
\* tracking the path, if and only if the listener's kernel version is
\* lexicographically lower than (4, 20); for every version from (4, 20) on
\* it behaves like Add with the filesystem mark flag.
C38_FilesystemMarkNeedsKernel420 ==
    (fn = "AddFilesystem" /\ args.recv = "l")
        => IF LowerThan(args.maj, args.min, 4, 20)
              THEN /\ out.ret = "ErrUnsupportedOnKernelVersion"
                   /\ out.markCalls = 0
                   /\ out.watches = args.watches
              ELSE /\ out.ret # "ErrUnsupportedOnKernelVersion"
                   /\ out.watches = args.watches \cup {args.path}
                   /\ out.markCalls = (IF args.path \in args.watches THEN 0 ELSE 1)
                   /\ out.markCalls = 1
                        => out.flags = {"FAN_MARK_ADD", "FAN_MARK_FILESYSTEM"}

====
